---- MODULE Spec2Model ----
(***************************************************************************)
(* Retail Customer Intelligence: the churn prediction API (app/main.py)    *)
(* and the priority ranking of the Streamlit dashboard (app.py).           *)
(*                                                                         *)
(* Probabilities and thresholds are fixed-point integers in units of       *)
(* 10^-(Decimals+1), one decimal finer than what round(prob, 4) keeps:     *)
(* 0.7 is 70000, 1.0 is 100000.                                            *)
(***************************************************************************)
EXTENDS Integers, Sequences, FiniteSets, TLC

VARIABLES
    config,     \* main.py: the loaded configuration (retention_policy thresholds)
    features,   \* main.py: the configured feature-name list
    MODEL_PATH, \* main.py: the path the model was loaded from
    model,      \* main.py: the loaded scorer, or None
    req,        \* the last HTTP request served
    resp,       \* the HTTP response to it
    trace,      \* predict()'s locals when it left: input_data, prob, scorer calls
    obs,        \* a client's record of one earlier /predict exchange
    tables,     \* app.py: the CSV tables under data/processed
    widgets,    \* app.py: the widget values of the last script run
    shown       \* app.py: what the last script run displayed

vars == <<config, features, MODEL_PATH, model, req, resp, trace, obs,
          tables, widgets, shown>>

apiVars == <<config, features, MODEL_PATH, model, req, resp, trace, obs>>
dashVars == <<tables, widgets, shown>>

----------------------------------------------------------------------------
(* Bounds of the model *)

\* feature values in a request body are 0..MaxVal
MaxVal == 1
\* the scorers differ by a seed 0..MaxSeed
MaxSeed == 2
\* customers in the dashboard's tables
MaxCustomers == 2

----------------------------------------------------------------------------
(* Fixed-point arithmetic *)

\* round(prob, 4)
Decimals == 4

One == 10 ^ (Decimals + 1)

\* round(x, 4): to the nearest multiple of 10 units, ties to even
Round4(x) ==
    LET q == x \div 10
        r == x % 10
    IN  IF r < 5 THEN 10 * q
        ELSE IF r > 5 THEN 10 * (q + 1)
        ELSE IF q % 2 = 0 THEN 10 * q ELSE 10 * (q + 1)

Range(s) == {s[i] : i \in DOMAIN s}

----------------------------------------------------------------------------
(* app/main.py: start-up *)

\* config["retention_policy"] of the fallback configuration
DefaultPolicy ==
    [high_risk_threshold |-> 70000, medium_risk_threshold |-> 50000,
     low_risk_threshold |-> 30000]

\* what a config.yaml may hold in its place: nothing validates the thresholds
PolicyChoices ==
    { DefaultPolicy,
      [high_risk_threshold |-> 80000, medium_risk_threshold |-> 55000,
       low_risk_threshold |-> 20000],
      [high_risk_threshold |-> 120000, medium_risk_threshold |-> 50000,
       low_risk_threshold |-> -10000],
      [high_risk_threshold |-> 30000, medium_risk_threshold |-> 50000,
       low_risk_threshold |-> 70000] }

Configs ==
    { [model_path |-> "models/churn_rf_calibrated.pkl",
       fallback_model_path |-> "models/churn_rf.pkl",
       retention_policy |-> pol] : pol \in PolicyChoices }

\* the feature list of features.json, or the fallback list (its first names)
FeatureChoices ==
    { <<"frequency_invoices", "recency_days">>,
      <<"recency_days", "frequency_invoices">> }

\* model = None: joblib.load raised
None == [proba |-> "none", predict |-> "none", seed |-> 0]

\* What joblib.load may return, by the interface the object exposes:
\*   proba   "two_columns"      predict_proba returns [[1 - p, p]]
\*           "one_column"       predict_proba returns a single column
\*           "absent"           the object has no predict_proba
\*           "attribute_error"  predict_proba raises an AttributeError inside
\*           "raises"           predict_proba raises a ValueError
\*   predict "ok" | "raises"
Scorers ==
    { [proba |-> k[1], predict |-> k[2], seed |-> s] :
        k \in { <<"two_columns", "ok">>, <<"one_column", "ok">>,
                <<"absent", "ok">>, <<"attribute_error", "ok">>,
                <<"raises", "ok">>, <<"absent", "raises">> },
        s \in 0..MaxSeed }

----------------------------------------------------------------------------
(* The scoring function: an opaque, deterministic function of the row *)

\* the churn probabilities a scorer can produce; a regressor-like scorer is
\* not confined to [0, 1]
ProbTable ==
    << -10000, 20000, 29999, 30000, 49999, 50000,
       55000, 69999, 70000, 75000, 100000, 120000 >>

RECURSIVE WeightedSum(_, _)
WeightedSum(row, i) ==
    IF i = 0 THEN 0 ELSE i * row[i] + WeightedSum(row, i - 1)

\* the positive-class score the fitted estimator assigns to a row
Score(m, row) ==
    ProbTable[((WeightedSum(row, Len(row)) + 4 * m.seed) % Len(ProbTable)) + 1]

Returned(v) == [raised |-> "", value |-> v]
Raised(e) == [raised |-> e, value |-> <<>>]

\* model.predict_proba(input_data)
predict_proba(m, row) ==
    CASE m.proba = "two_columns" ->
            Returned(<< <<One - Score(m, row), Score(m, row)>> >>)
      [] m.proba = "one_column" -> Returned(<< <<One>> >>)
      [] m.proba \in {"absent", "attribute_error"} -> Raised("AttributeError")
      [] OTHER -> Raised("ValueError")

\* model.predict_proba(input_data)[0, 1]
PositiveClass(m, row) ==
    LET r == predict_proba(m, row)
    IN  IF r.raised # "" THEN r
        ELSE IF Len(r.value[1]) >= 2 THEN Returned(r.value[1][2])
        ELSE Raised("IndexError")

\* float(model.predict(input_data)[0]): the hard label, 0.0 or 1.0
HardLabel(m, row) ==
    IF m.predict = "ok"
    THEN Returned((IF Score(m, row) >= 50000 THEN 1 ELSE 0) * One)
    ELSE Raised("ValueError")

\* FallbackExceptions without the except IndexError clause
FallbackOnAttributeErrorOnly == {"AttributeError"}

\* the exceptions of the probability call that predict() answers with the
\* hard label
FallbackExceptions == {"AttributeError", "IndexError"}

\* the try/except around the probability call: prob, or the exception that
\* escapes, and the scorer interfaces used
GetProb(m, row) ==
    LET a == PositiveClass(m, row)
        b == HardLabel(m, row)
    IN  IF a.raised = ""
        THEN [raised |-> "", prob |-> a.value, calls |-> <<"predict_proba">>]
        ELSE IF a.raised \in FallbackExceptions
        THEN [raised |-> b.raised,
              prob |-> IF b.raised = "" THEN b.value ELSE 0,
              calls |-> <<"predict_proba", "predict">>]
        ELSE [raised |-> a.raised, prob |-> 0, calls |-> <<"predict_proba">>]

----------------------------------------------------------------------------
(* The risk policy of predict() *)

Tiers == {"High", "Medium", "Low-Medium", "Low"}

\* RiskPolicy with the medium threshold tested before the high one
RiskPolicyMediumFirst(prob, policy) ==
    LET high == policy.high_risk_threshold
        medium == policy.medium_risk_threshold
        low == policy.low_risk_threshold
    IN  IF prob >= medium
        THEN [risk |-> "Medium", action |-> "Priority Retention Offer"]
        ELSE IF prob >= high
        THEN [risk |-> "High", action |-> "Immediate Retention Campaign"]
        ELSE IF prob >= low
        THEN [risk |-> "Low-Medium", action |-> "Monitor / Standard Campaign"]
        ELSE [risk |-> "Low", action |-> "No Action Required"]

\* RiskPolicy with == for >= in its first test
RiskPolicyEquals(prob, policy) ==
    LET high == policy.high_risk_threshold
        medium == policy.medium_risk_threshold
        low == policy.low_risk_threshold
    IN  IF prob = high
        THEN [risk |-> "High", action |-> "Immediate Retention Campaign"]
        ELSE IF prob >= medium
        THEN [risk |-> "Medium", action |-> "Priority Retention Offer"]
        ELSE IF prob >= low
        THEN [risk |-> "Low-Medium", action |-> "Monitor / Standard Campaign"]
        ELSE [risk |-> "Low", action |-> "No Action Required"]

\* RiskPolicy with > for >= in every test
RiskPolicyStrict(prob, policy) ==
    LET high == policy.high_risk_threshold
        medium == policy.medium_risk_threshold
        low == policy.low_risk_threshold
    IN  IF prob > high
        THEN [risk |-> "High", action |-> "Immediate Retention Campaign"]
        ELSE IF prob > medium
        THEN [risk |-> "Medium", action |-> "Priority Retention Offer"]
        ELSE IF prob > low
        THEN [risk |-> "Low-Medium", action |-> "Monitor / Standard Campaign"]
        ELSE [risk |-> "Low", action |-> "No Action Required"]

\* RiskPolicy with the probability clamped into [0, 1] first
RiskPolicyClamped(prob, policy) ==
    LET high == policy.high_risk_threshold
        medium == policy.medium_risk_threshold
        low == policy.low_risk_threshold
        p == IF prob < 0 THEN 0 ELSE IF prob > One THEN One ELSE prob
    IN  IF p >= high
        THEN [risk |-> "High", action |-> "Immediate Retention Campaign"]
        ELSE IF p >= medium
        THEN [risk |-> "Medium", action |-> "Priority Retention Offer"]
        ELSE IF p >= low
        THEN [risk |-> "Low-Medium", action |-> "Monitor / Standard Campaign"]
        ELSE [risk |-> "Low", action |-> "No Action Required"]

RiskPolicy(prob, policy) ==
    LET high == policy.high_risk_threshold
        medium == policy.medium_risk_threshold
        low == policy.low_risk_threshold
    IN  IF prob >= high
        THEN [risk |-> "High", action |-> "Immediate Retention Campaign"]
        ELSE IF prob >= medium
        THEN [risk |-> "Medium", action |-> "Priority Retention Offer"]
        ELSE IF prob >= low
        THEN [risk |-> "Low-Medium", action |-> "Monitor / Standard Campaign"]
        ELSE [risk |-> "Low", action |-> "No Action Required"]

----------------------------------------------------------------------------
(* Requests and responses *)

\* a JSON value of a request body: a number, or a string no float parses
JsonVals == {[t |-> "num", v |-> n] : n \in 0..MaxVal} \cup {[t |-> "str", v |-> 0]}

\* the names a body may carry: the features, and a field that is no feature
FieldNames == {"recency_days", "frequency_invoices", "customer_id"}

Bodies ==
    { b \in UNION {[D -> JsonVals] : D \in SUBSET FieldNames} :
        "customer_id" \in DOMAIN b => b["customer_id"].t = "str" }

NoBody == [c \in {} |-> [t |-> "num", v |-> 0]]

NoRequest == [method |-> "", path |-> "", body |-> NoBody]

Http(status, body) == [status |-> status, body |-> body]

NoResponse == Http(0, [detail |-> ""])

NoTrace == [scored |-> FALSE, prob |-> 0, input_data |-> <<>>, calls |-> <<>>]

\* CustomerData, create_model's schema: every feature a required float, other
\* fields ignored
Validates(body, feats) ==
    \A i \in DOMAIN feats :
        feats[i] \in DOMAIN body /\ body[feats[i]].t = "num"

\* data.dict()
DataDict(body, feats) == [c \in Range(feats) |-> body[c].v]

\* for col in features: if col not in input_data.columns: input_data[col] = 0
FillMissing(d, feats) ==
    [c \in DOMAIN d \cup Range(feats) |-> IF c \in DOMAIN d THEN d[c] ELSE 0]

\* input_data[features]
SelectColumns(d, feats) == [i \in DOMAIN feats |-> d[feats[i]]]

\* ScoreAndClassify answering a scorer's exception with an empty prediction
\* in place of the 500
ScoreAndClassifyPartial(data, m, feats, cfg) ==
    LET input_data == SelectColumns(FillMissing(data, feats), feats)
        g == GetProb(m, input_data)
        r == RiskPolicy(g.prob, cfg.retention_policy)
    IN  IF g.raised # ""
        THEN [resp |-> Http(200, [churn_probability |-> 0,
                                  churn_risk_level |-> "",
                                  recommended_action |-> ""]),
              trace |-> [scored |-> FALSE, prob |-> 0,
                         input_data |-> input_data, calls |-> g.calls]]
        ELSE [resp |-> Http(200, [churn_probability |-> Round4(g.prob),
                                  churn_risk_level |-> r.risk,
                                  recommended_action |-> r.action]),
              trace |-> [scored |-> TRUE, prob |-> g.prob,
                         input_data |-> input_data, calls |-> g.calls]]

\* ScoreAndClassify classifying the probability it reports, the rounded one
ScoreAndClassifyRounded(data, m, feats, cfg) ==
    LET input_data == SelectColumns(FillMissing(data, feats), feats)
        g == GetProb(m, input_data)
        r == RiskPolicy(Round4(g.prob), cfg.retention_policy)
    IN  IF g.raised # ""
        THEN [resp |-> Http(500, [detail |-> g.raised]),
              trace |-> [scored |-> FALSE, prob |-> 0,
                         input_data |-> input_data, calls |-> g.calls]]
        ELSE [resp |-> Http(200, [churn_probability |-> Round4(g.prob),
                                  churn_risk_level |-> r.risk,
                                  recommended_action |-> r.action]),
              trace |-> [scored |-> TRUE, prob |-> g.prob,
                         input_data |-> input_data, calls |-> g.calls]]

\* the try block of predict(): the response, and the locals it leaves; an
\* exception that escapes the scorer becomes a 500 carrying its message
ScoreAndClassify(data, m, feats, cfg) ==
    LET input_data == SelectColumns(FillMissing(data, feats), feats)
        g == GetProb(m, input_data)
        r == RiskPolicy(g.prob, cfg.retention_policy)
    IN  IF g.raised # ""
        THEN [resp |-> Http(500, [detail |-> g.raised]),
              trace |-> [scored |-> FALSE, prob |-> 0,
                         input_data |-> input_data, calls |-> g.calls]]
        ELSE [resp |-> Http(200, [churn_probability |-> Round4(g.prob),
                                  churn_risk_level |-> r.risk,
                                  recommended_action |-> r.action]),
              trace |-> [scored |-> TRUE, prob |-> g.prob,
                         input_data |-> input_data, calls |-> g.calls]]

\* predict without its model is None test
predict_unguarded(data, m, feats, cfg) == ScoreAndClassify(data, m, feats, cfg)

\* predict answering from the last prediction it made, whatever the data
predict_cached(data, m, feats, cfg) ==
    IF m = None
    THEN [resp |-> Http(503, [detail |-> "Model not loaded"]), trace |-> NoTrace]
    ELSE IF req.path = "/predict" /\ resp.status = 200
    THEN [resp |-> resp, trace |-> trace]
    ELSE ScoreAndClassify(data, m, feats, cfg)

\* predict(data)
predict(data, m, feats, cfg) ==
    IF m = None
    THEN [resp |-> Http(503, [detail |-> "Model not loaded"]), trace |-> NoTrace]
    ELSE ScoreAndClassify(data, m, feats, cfg)

\* POST /predict as FastAPI serves it: the body is validated against
\* CustomerData first, and predict() runs only on a body that validates
ServePredict(body, m, feats, cfg) ==
    IF Validates(body, feats)
    THEN predict(DataDict(body, feats), m, feats, cfg)
    ELSE [resp |-> Http(422, [detail |-> "validation error"]), trace |-> NoTrace]

----------------------------------------------------------------------------
(* app/main.py: the process after start-up, and its three endpoints *)

\* set: an exchange is kept; between: another request was served after it
NoObservation ==
    [set |-> FALSE, between |-> FALSE, req |-> NoRequest, resp |-> NoResponse]

\* the kept exchange, once the request r is served
Aged(r) ==
    IF obs.set /\ r # obs.req THEN [obs EXCEPT !.between = TRUE] ELSE obs

\* module level of main.py: config, features, MODEL_PATH and model are loaded
InitApi ==
    /\ config \in Configs
    /\ features \in FeatureChoices
    /\ \E primary \in BOOLEAN :
         MODEL_PATH = IF primary THEN config.model_path
                      ELSE config.fallback_model_path
    /\ model \in Scorers \cup {None}
    /\ req = NoRequest
    /\ resp = NoResponse
    /\ trace = NoTrace
    /\ obs = NoObservation

\* GET /
home ==
    /\ req' = [method |-> "GET", path |-> "/", body |-> NoBody]
    /\ resp' = Http(200, [message |->
                  "Retail Churn Prediction API. Go to /docs for testing."])
    /\ trace' = NoTrace
    /\ obs' = Aged(req')
    /\ UNCHANGED <<config, features, MODEL_PATH, model, dashVars>>

\* GET /health
health_check ==
    /\ req' = [method |-> "GET", path |-> "/health", body |-> NoBody]
    /\ resp' = Http(200, [status |-> IF model # None THEN "ok" ELSE "error",
                          model |-> MODEL_PATH])
    /\ trace' = NoTrace
    /\ obs' = Aged(req')
    /\ UNCHANGED <<config, features, MODEL_PATH, model, dashVars>>

\* PostPredict dropping the model once a scoring call has failed
PostPredictDropsModel(body) ==
    LET out == ServePredict(body, model, features, config)
    IN  /\ req' = [method |-> "POST", path |-> "/predict", body |-> body]
        /\ resp' = out.resp
        /\ trace' = out.trace
        /\ model' = IF out.resp.status = 500 THEN None ELSE model
        /\ UNCHANGED <<config, features, MODEL_PATH, dashVars>>

\* POST /predict with a body
PostPredict(body) ==
    LET out == ServePredict(body, model, features, config)
    IN  /\ req' = [method |-> "POST", path |-> "/predict", body |-> body]
        /\ resp' = out.resp
        /\ trace' = out.trace
        /\ UNCHANGED <<config, features, MODEL_PATH, model, dashVars>>

Predict == \E body \in Bodies : PostPredict(body) /\ UNCHANGED obs

\* the same, with a client that may keep one exchange to compare later
\* exchanges with
PredictObserved ==
    \E body \in Bodies :
        /\ PostPredict(body)
        /\ \/ obs' = Aged(req')
           \/ /\ ~obs.set
              /\ obs' = [set |-> TRUE, between |-> FALSE,
                         req |-> req', resp |-> resp']

----------------------------------------------------------------------------
(* app.py: the Streamlit dashboard over the tables in data/processed *)

Customers == 1..MaxCustomers

Actions ==
    {"Immediate Retention Campaign", "No Action Required"}

\* a row of customer_retention_policy.csv; priority_score is in units of
\* 1/One, as a churn_risk times a clv_12m is
PolicyRows ==
    [churn_risk : {20000, 60000},
     priority_score : {20 * One, 600 * One},
     recommended_action : Actions]

NoPolicy == [present |-> FALSE, rows |-> [c \in {} |-> 0]]
NoChurn == [present |-> FALSE, rows |-> [c \in {} |-> 0]]
NoClv == [c \in Customers |-> 0]

\* customer_retention_policy.csv, when it exists: rows for some customers
PolicyTables ==
    { [present |-> TRUE, rows |-> r] :
        r \in UNION {[D -> PolicyRows] : D \in (SUBSET Customers) \ {{}}} }

\* customer_churn_risk.csv, when it exists
ChurnTables ==
    { [present |-> TRUE, rows |-> r] :
        r \in UNION {[D -> {20000, 60000}] : D \in SUBSET Customers} }

\* load_data(): customers come with clv_12m (customer_segments_with_clv.csv)
\* or without (customer_segments.csv); the churn table is read only when
\* there is no retention policy
Tables ==
    { [has_clv |-> h[1], clv_12m |-> h[2], retention_policy |-> f[1],
       churn_risk |-> f[2]] :
        h \in ({TRUE} \X [Customers -> {100, 1000}]) \cup {<<FALSE, NoClv>>},
        f \in (PolicyTables \X {NoChurn}) \cup ({NoPolicy} \X ChurnTables)
               \cup {<<NoPolicy, NoChurn>>} }

NoTables ==
    [has_clv |-> FALSE, clv_12m |-> NoClv, retention_policy |-> NoPolicy,
     churn_risk |-> NoChurn]

NoWidgets ==
    [filter_option |-> "", selected_action |-> "", threshold |-> 0,
     risk_threshold |-> 0]

NoShown == [section |-> "", ids |-> <<>>]

has_retention_policy(t) == t.retention_policy.present

has_churn(t) == t.retention_policy.present \/ t.churn_risk.present

\* the customers whose merged row has a churn_risk (the others hold NaN)
HasRisk(t) ==
    IF has_retention_policy(t) THEN DOMAIN t.retention_policy.rows
    ELSE DOMAIN t.churn_risk.rows

\* customers["churn_risk"] after the left merge
MergedRisk(t, c) ==
    IF has_retention_policy(t) THEN t.retention_policy.rows[c].churn_risk
    ELSE t.churn_risk.rows[c]

\* PriorityKey computed as churn_risk * clv_12m whenever there is a clv_12m
PriorityKeyComputed(t, c) ==
    IF t.has_clv
    THEN t.retention_policy.rows[c].churn_risk * t.clv_12m[c]
    ELSE t.retention_policy.rows[c].priority_score

\* the sort key of the priority list: the priority_score column as merged
PriorityKey(t, c) == t.retention_policy.rows[c].priority_score

\* the sort key of the at-risk list: churn_risk * clv_12m when the customers
\* carry clv_12m, else churn_risk
AtRiskKey(t, c) ==
    IF t.has_clv THEN MergedRisk(t, c) * t.clv_12m[c] ELSE MergedRisk(t, c)

Perms(S) ==
    { f \in [1..Cardinality(S) -> S] :
        \A i, j \in 1..Cardinality(S) : i # j => f[i] # f[j] }

\* sort_values(key, ascending=False): descending, rows without a key last;
\* the sort is not stable, so equal keys come in any order
\* key: the key of each row that has one
SortedDescending(ids, key) ==
    \A i, j \in DOMAIN ids :
        i < j =>
            /\ ids[j] \in DOMAIN key => ids[i] \in DOMAIN key
            /\ (ids[i] \in DOMAIN key /\ ids[j] \in DOMAIN key)
                  => key[ids[i]] >= key[ids[j]]

\* the "Retention Policy: Priority Customers" section
PrioritySection(t, w) ==
    LET keyed == DOMAIN t.retention_policy.rows
        kept ==
            CASE w.filter_option = "Recommended action" ->
                    { c \in keyed :
                        t.retention_policy.rows[c].recommended_action
                            = w.selected_action }
              [] w.filter_option = "Priority threshold" ->
                    { c \in keyed : PriorityKey(t, c) >= w.threshold }
              [] OTHER -> Customers
        key == [c \in keyed |-> PriorityKey(t, c)]
    IN  { [section |-> "priority", ids |-> ids] :
            ids \in { q \in Perms(kept) : SortedDescending(q, key) } }

\* the "Retention: at-risk customers" section
AtRiskSection(t, w) ==
    LET keyed == HasRisk(t)
        at_risk == { c \in keyed : MergedRisk(t, c) >= w.risk_threshold }
        key == [c \in keyed |-> AtRiskKey(t, c)]
    IN  { [section |-> "at_risk", ids |-> ids] :
            ids \in { q \in Perms(at_risk) : SortedDescending(q, key) } }

\* the widget values a run can have, given the tables
WidgetChoices(t) ==
    IF has_retention_policy(t)
    THEN LET rows == t.retention_policy.rows
         IN  { [NoWidgets EXCEPT !.filter_option = "All customers"] }
             \cup { [NoWidgets EXCEPT !.filter_option = "Recommended action",
                                      !.selected_action = rows[c].recommended_action] :
                      c \in DOMAIN rows }
             \cup { [NoWidgets EXCEPT !.filter_option = "Priority threshold",
                                      !.threshold = x] :
                      x \in {0} \cup {rows[c].priority_score : c \in DOMAIN rows} }
    ELSE IF has_churn(t)
    THEN { [NoWidgets EXCEPT !.risk_threshold = x] : x \in {0, 50000, One} }
    ELSE { NoWidgets }

\* what one run of the script displays under the retention heading
Render(t, w) ==
    IF has_retention_policy(t) THEN PrioritySection(t, w)
    ELSE IF has_churn(t) THEN AtRiskSection(t, w)
    ELSE { [section |-> "none", ids |-> <<>>] }

InitDashboard ==
    /\ tables \in Tables
    /\ widgets = NoWidgets
    /\ shown = NoShown

\* one run of app.py: Streamlit runs the script again on every interaction
Rerun ==
    /\ \E w \in WidgetChoices(tables) :
         /\ widgets' = w
         /\ shown' \in Render(tables, w)
    /\ UNCHANGED <<tables, apiVars>>

----------------------------------------------------------------------------
(* app/dashboard.py: the retention dashboard over customer_retention_policy.csv *)

\* len(df[df["churn_risk"] > 0.7]): the cut-off written into the script
HighRiskCutoff == 70000

\* a row of the policy table as the dashboard reads it: churn risks under,
\* at and over the cut-off
DashboardRows ==
    [churn_risk : {60000, 70000, 75000},
     priority_score : {20 * One, 600 * One},
     recommended_action : Actions]

\* load_data(): the policy table with its clv_12m column, or None when
\* POLICY_PATH does not exist
DashboardTables ==
    { [has_clv |-> TRUE, clv_12m |-> v,
       retention_policy |-> [present |-> TRUE, rows |-> r],
       churn_risk |-> NoChurn] :
        v \in [Customers -> {100, 1000}], r \in [Customers -> DashboardRows] }
    \cup { NoTables }

RECURSIVE SumOver(_, _)
SumOver(f, S) ==
    IF S = {} THEN 0
    ELSE LET c == CHOOSE x \in S : TRUE IN f[c] + SumOver(f, S \ {c})

\* df["churn_risk"].mean()
avg_churn_risk(df) ==
    SumOver([c \in DOMAIN df |-> df[c].churn_risk], DOMAIN df)
        \div Cardinality(DOMAIN df)

\* len(df[df["churn_risk"] > 0.7])
high_risk_count(df) ==
    Cardinality({ c \in DOMAIN df : df[c].churn_risk > HighRiskCutoff })

\* df["clv_12m"].sum()
total_clv(t) == SumOver(t.clv_12m, DOMAIN t.retention_policy.rows)

\* the rows the multiselect keeps: all of them when nothing is selected
filtered_df(df, action_filter) ==
    IF action_filter # {}
    THEN { c \in DOMAIN df : df[c].recommended_action \in action_filter }
    ELSE DOMAIN df

\* what one run of the script displays: the four metrics and the priority
\* retention list, in descending order of priority_score
DashboardPage(t, action_filter) ==
    LET df == t.retention_policy.rows
        key == [c \in DOMAIN df |-> df[c].priority_score]
    IN  { [section |-> "retention_dashboard", ids |-> ids,
           total |-> Cardinality(DOMAIN df),
           avg_churn_risk |-> avg_churn_risk(df),
           high_risk_count |-> high_risk_count(df),
           total_clv |-> total_clv(t)] :
            ids \in { q \in Perms(filtered_df(df, action_filter)) :
                        SortedDescending(q, key) } }

\* st.error("Data not found ...")
DataNotFound ==
    [section |-> "error", ids |-> <<>>, total |-> 0, avg_churn_risk |-> 0,
     high_risk_count |-> 0, total_clv |-> 0]

\* one run of app/dashboard.py
RunDashboard ==
    /\ IF tables.retention_policy.present
       THEN \E action_filter \in
                SUBSET { tables.retention_policy.rows[c].recommended_action :
                           c \in DOMAIN tables.retention_policy.rows } :
              /\ widgets' = [action_filter |-> action_filter]
              /\ shown' \in DashboardPage(tables, action_filter)
       ELSE /\ widgets' = [action_filter |-> {}]
            /\ shown' = DataNotFound
    /\ UNCHANGED <<tables, apiVars>>

----------------------------------------------------------------------------
(* Specifications *)

\* the API process; no dashboard
Init ==
    /\ InitApi
    /\ tables = NoTables
    /\ widgets = NoWidgets
    /\ shown = NoShown

Next == home \/ health_check \/ Predict

Spec == Init /\ [][Next]_vars

\* the API process and a client that compares exchanges
NextObserved == home \/ health_check \/ PredictObserved

\* the start-ups the client is followed through: the fallback configuration,
\* either feature order, each kind of scorer
InitObserved ==
    /\ Init
    /\ config.retention_policy = DefaultPolicy
    /\ MODEL_PATH = config.model_path
    /\ model.seed = 0

SpecObserved == InitObserved /\ [][NextObserved]_vars

\* the dashboard; the API process stays as it started
InitDash ==
    /\ InitDashboard
    /\ config = [model_path |-> "models/churn_rf_calibrated.pkl",
                 fallback_model_path |-> "models/churn_rf.pkl",
                 retention_policy |-> DefaultPolicy]
    /\ features = <<"recency_days", "frequency_invoices">>
    /\ MODEL_PATH = config.model_path
    /\ model = None
    /\ req = NoRequest
    /\ resp = NoResponse
    /\ trace = NoTrace
    /\ obs = NoObservation

NextDash == Rerun

SpecDash == InitDash /\ [][NextDash]_vars

\* the retention dashboard; the API process stays as it started
InitRetention ==
    /\ tables \in DashboardTables
    /\ widgets = [action_filter |-> {}]
    /\ shown = [DataNotFound EXCEPT !.section = ""]
    /\ config = [model_path |-> "models/churn_rf_calibrated.pkl",
                 fallback_model_path |-> "models/churn_rf.pkl",
                 retention_policy |-> DefaultPolicy]
    /\ features = <<"recency_days", "frequency_invoices">>
    /\ MODEL_PATH = config.model_path
    /\ model = None
    /\ req = NoRequest
    /\ resp = NoResponse
    /\ trace = NoTrace
    /\ obs = NoObservation

NextRetention == RunDashboard

SpecRetention == InitRetention /\ [][NextRetention]_vars

----------------------------------------------------------------------------
(* Properties of the risk policy *)

\* the last request was a POST /predict
IsPredict == req.path = "/predict"

\* ... and it was answered with a prediction
Succeeded == IsPredict /\ resp.status = 200

High == config.retention_policy.high_risk_threshold
Medium == config.retention_policy.medium_risk_threshold
Low == config.retention_policy.low_risk_threshold

Ordered == High > Medium /\ Medium > Low

Answer(tier, action) ==
    /\ resp.body.churn_risk_level = tier
    /\ resp.body.recommended_action = action

\* C1: a successful /predict returns the tier and action of the first rule,
\* top-down, that the churn probability matches: p >= high gives High and
\* Immediate Retention Campaign; else p >= medium gives Medium and Priority
\* Retention Offer; else p >= low gives Low-Medium and Monitor / Standard
\* Campaign; otherwise Low and No Action Required.
C1_FirstMatchingRule ==
    Succeeded =>
        LET p == trace.prob
        IN  /\ p >= High => Answer("High", "Immediate Retention Campaign")
            /\ (p < High /\ p >= Medium)
                   => Answer("Medium", "Priority Retention Offer")
            /\ (p < High /\ p < Medium /\ p >= Low)
                   => Answer("Low-Medium", "Monitor / Standard Campaign")
            /\ (p < High /\ p < Medium /\ p < Low)
                   => Answer("Low", "No Action Required")

\* p = 0.55 under high = 0.7, medium = 0.5 is answered Medium
C1_Witness ==
    /\ Succeeded
    /\ config.retention_policy = DefaultPolicy
    /\ trace.prob = 55000
    /\ Answer("Medium", "Priority Retention Offer")

\* the probabilities of [0, 1] the partition is examined at: those a scorer
\* produces, the thresholds, and the two ends
UnitGrid ==
    { p \in Range(ProbTable) \cup {0, One}
             \cup {pol.high_risk_threshold : pol \in PolicyChoices}
             \cup {pol.medium_risk_threshold : pol \in PolicyChoices}
             \cup {pol.low_risk_threshold : pol \in PolicyChoices} :
        0 <= p /\ p <= One }

TierOf(p) == RiskPolicy(p, config.retention_policy).risk

\* C2: under thresholds with high > medium > low every p of [0, 1] gets
\* exactly one of the four tiers, and the p of each tier form an interval:
\* between two probabilities of one tier there is no probability of another.
\* The tiers are then disjoint intervals whose union is [0, 1].
C2_TiersPartitionUnitInterval ==
    Ordered =>
        /\ \A p \in UnitGrid : Cardinality({t \in Tiers : TierOf(p) = t}) = 1
        /\ \A p, q, r \in UnitGrid :
              (p <= q /\ q <= r /\ TierOf(p) = TierOf(r)) => TierOf(q) = TierOf(p)
        /\ (Succeeded /\ trace.prob \in UnitGrid)
              => resp.body.churn_risk_level = TierOf(trace.prob)

\* ordered thresholds, all four tiers taken inside [0, 1], and a request
\* answered with one of them
C2_Witness ==
    /\ Ordered
    /\ {TierOf(p) : p \in UnitGrid} = Tiers
    /\ Succeeded
    /\ trace.prob \in UnitGrid
    /\ resp.body.churn_risk_level = "Low-Medium"

\* C3: the thresholds are inclusive lower bounds. Under high > medium > low,
\* p = high is High, p = medium is Medium, p = low is Low-Medium, and a p
\* below a threshold and not below the next lower one gets the next lower
\* tier, down to the p one unit under the threshold.
C3_InclusiveLowerBounds ==
    (Succeeded /\ Ordered) =>
        LET p == trace.prob
            tier == resp.body.churn_risk_level
        IN  /\ p = High => tier = "High"
            /\ p = Medium => tier = "Medium"
            /\ p = Low => tier = "Low-Medium"
            /\ (Medium <= p /\ p < High) => tier = "Medium"
            /\ (Low <= p /\ p < Medium) => tier = "Low-Medium"
            /\ p < Low => tier = "Low"
            /\ p = High - 1 => tier # "High"
            /\ p = Medium - 1 => tier \notin {"High", "Medium"}
            /\ p = Low - 1 => tier = "Low"

\* a probability equal to the high threshold, answered High
C3_Witness ==
    /\ Succeeded
    /\ Ordered
    /\ trace.prob = High
    /\ resp.body.churn_risk_level = "High"

\* the scorer of the process answers every row: its probability call gives
\* a probability, or fails in a way the hard label stands in for
ScorerAnswers ==
    \/ model.proba = "two_columns"
    \/ /\ model.proba \in {"one_column", "absent", "attribute_error"}
       /\ model.predict = "ok"

\* C9: the risk policy is total. Whatever the probability, inside [0, 1] or
\* not, and whatever the three thresholds, ordered or not, a request the
\* scorer answers gets exactly one of the four tiers: the first of High,
\* Medium, Low-Medium, Low whose threshold the probability reaches.
C9_PolicyIsTotal ==
    (IsPredict /\ Validates(req.body, features) /\ model # None /\ ScorerAnswers)
        => /\ resp.status = 200
           /\ resp.body.churn_risk_level \in Tiers
           /\ resp.body.churn_risk_level =
                 (IF trace.prob >= High THEN "High"
                  ELSE IF trace.prob >= Medium THEN "Medium"
                  ELSE IF trace.prob >= Low THEN "Low-Medium"
                  ELSE "Low")

\* thresholds out of order and a probability outside [0, 1], answered
C9_Witness ==
    /\ Succeeded
    /\ ~Ordered
    /\ (trace.prob < 0 \/ trace.prob > One)
    /\ resp.body.churn_risk_level \in Tiers

----------------------------------------------------------------------------
(* Properties of the /predict endpoint *)

Validated == Validates(req.body, features)

\* the body names every configured feature, with a float or not
SuppliesEveryFeature == \A i \in DOMAIN features : features[i] \in DOMAIN req.body

\* C4 as stated: with no model loaded every /predict call is answered 503,
\* and with a model loaded none is. Stated of the calls that supply every
\* configured feature, so that it does not rest on what becomes of a body
\* that leaves one out.
C4_Original ==
    (IsPredict /\ SuppliesEveryFeature) =>
        /\ model = None => resp.status = 503
        /\ model # None => resp.status # 503

\* C4, amended: with no model loaded every /predict call whose body passes
\* the CustomerData validation is answered 503 "Model not loaded", a body
\* that fails it is answered 422 before predict() runs, and no call is
\* answered 200 or 500; with a model loaded no call is answered 503.
C4_UnavailableWhenValidated ==
    IsPredict =>
        /\ (model = None /\ Validated)
              => resp = Http(503, [detail |-> "Model not loaded"])
        /\ (model = None /\ ~Validated) => resp.status = 422
        /\ model # None => resp.status # 503

\* no model, a body that validates, answered 503
C4_Witness ==
    /\ IsPredict
    /\ model = None
    /\ Validated
    /\ resp.status = 503

ActionOf(tier) ==
    CASE tier = "High" -> "Immediate Retention Campaign"
      [] tier = "Medium" -> "Priority Retention Offer"
      [] tier = "Low-Medium" -> "Monitor / Standard Campaign"
      [] OTHER -> "No Action Required"

\* a response with probability, tier and the tier's action all set
FullSuccess ==
    /\ resp.status = 200
    /\ DOMAIN resp.body
          = {"churn_probability", "churn_risk_level", "recommended_action"}
    /\ resp.body.churn_risk_level \in Tiers
    /\ resp.body.recommended_action = ActionOf(resp.body.churn_risk_level)
    /\ trace.scored
    /\ ScorerAnswers

\* a 500 carrying the message of the exception the scorer raised
OutrightFailure ==
    /\ resp.status = 500
    /\ DOMAIN resp.body = {"detail"}
    /\ resp.body.detail = "ValueError"
    /\ ~ScorerAnswers

\* no interface of the scorer is called twice for one request
NoRetry ==
    \A i, j \in DOMAIN trace.calls : i # j => trace.calls[i] # trace.calls[j]

\* C5 as stated: a /predict request with a model loaded either succeeds in
\* full or fails with a 500, and nothing is retried. Stated of the requests
\* that supply every configured feature, as C4 is.
C5_Original ==
    (IsPredict /\ model # None /\ SuppliesEveryFeature)
        => ((FullSuccess \/ OutrightFailure) /\ NoRetry)

\* C5, amended: a /predict request with a model loaded whose body passes the
\* CustomerData validation either succeeds in full or fails with a 500
\* carrying the failure message, and nothing is retried; a body that fails
\* the validation is answered 422 and predict() does not run.
C5_SuccessOrFailure ==
    (IsPredict /\ model # None) =>
        IF Validated
        THEN (FullSuccess \/ OutrightFailure) /\ NoRetry
        ELSE resp.status = 422 /\ trace = NoTrace

\* a scorer that raises, answered 500
C5_Witness ==
    /\ IsPredict
    /\ model # None
    /\ Validated
    /\ resp.status = 500
    /\ trace.calls = <<"predict_proba", "predict">>

\* C6: a request that leaves out configured features is not rejected: the
\* features it leaves out are 0, the fields that are no features are
\* dropped, and the scorer gets the configured features in their order.
C6_MissingFeatureFilled ==
    ( /\ IsPredict
      /\ model # None
      /\ \A c \in DOMAIN req.body \cap Range(features) : req.body[c].t = "num" )
        => /\ resp.status \in {200, 500}
           /\ trace.input_data
                 = [i \in DOMAIN features |->
                      IF features[i] \in DOMAIN req.body
                      THEN req.body[features[i]].v ELSE 0]

\* the request reaches the scorer
Scoring == IsPredict /\ model # None /\ Validated

HardLabelUsed == "predict" \in Range(trace.calls)

\* C8 as stated: the hard label stands in only for a scorer without a
\* probability output; a scorer that has one is never answered with the
\* label, and any failure of its probability call is a 500.
C8_Original ==
    Scoring =>
        /\ model.proba = "absent" => HardLabelUsed
        /\ model.proba # "absent" => ~HardLabelUsed
        /\ model.proba \in {"one_column", "attribute_error", "raises"}
              => resp.status = 500

\* C8, amended: the adapter takes the positive-class probability when the
\* probability call gives one; it takes the hard label, cast to float, when
\* that call raises AttributeError (no predict_proba, or an AttributeError
\* inside it) or IndexError (an output with no positive-class column); any
\* other failure of the call, and a failure of the hard-label call, is a 500.
C8_FallbackOnAttributeOrIndexError ==
    Scoring =>
        /\ model.proba = "two_columns"
              => /\ trace.calls = <<"predict_proba">>
                 /\ resp.status = 200
                 /\ trace.prob = Score(model, trace.input_data)
        /\ model.proba \in {"absent", "attribute_error", "one_column"}
              => /\ trace.calls = <<"predict_proba", "predict">>
                 /\ model.predict = "ok"
                       => (resp.status = 200 /\ trace.prob \in {0, One})
                 /\ model.predict = "raises" => resp.status = 500
        /\ model.proba = "raises"
              => /\ trace.calls = <<"predict_proba">>
                 /\ resp.status = 500

\* a scorer with a one-column probability output, answered with its label
C8_Witness ==
    /\ Scoring
    /\ model.proba = "one_column"
    /\ resp.status = 200
    /\ HardLabelUsed

\* C10: two /predict requests with the same body get the same response,
\* whatever was served since the first.
C10_SameRequestSameResponse ==
    (obs.set /\ IsPredict /\ req.body = obs.req.body) => resp = obs.resp

\* a prediction kept, other requests served, the same body predicted again
C10_Witness ==
    /\ obs.set
    /\ obs.between
    /\ Succeeded
    /\ req.body = obs.req.body
    /\ resp = obs.resp

----------------------------------------------------------------------------
(* Properties of the dashboard's ranking *)

\* the list shown is in descending order of score, a function of the
\* customers that have a churn row; the customers without one come last
RankedBy(score) ==
    \A i, j \in DOMAIN shown.ids :
        i < j =>
            /\ shown.ids[j] \in DOMAIN score => shown.ids[i] \in DOMAIN score
            /\ (shown.ids[i] \in DOMAIN score /\ shown.ids[j] \in DOMAIN score)
                  => score[shown.ids[i]] >= score[shown.ids[j]]

ChurnRisk ==
    [c \in HasRisk(tables) |->
        IF tables.retention_policy.present
        THEN tables.retention_policy.rows[c].churn_risk
        ELSE tables.churn_risk.rows[c]]

RiskTimesValue == [c \in HasRisk(tables) |-> ChurnRisk[c] * tables.clv_12m[c]]

SuppliedScore ==
    [c \in DOMAIN tables.retention_policy.rows |->
        tables.retention_policy.rows[c].priority_score]

Ranked == shown.section \in {"priority", "at_risk"}

----------------------------------------------------------------------------
(* Properties of the retention dashboard *)

\* the records the risk policy of predict() puts in the High tier under the
\* default thresholds
ClassifiedHigh ==
    { c \in DOMAIN tables.retention_policy.rows :
        RiskPolicy(tables.retention_policy.rows[c].churn_risk, DefaultPolicy).risk
            = "High" }

\* C11: the dashboard decides nothing itself: for every table, the number
\* of customers it reports as High Risk is the number of records whose churn
\* probability the risk policy classifies as High under the default high
\* threshold 0.7.
C11_HighRiskCountIsPolicyHigh ==
    shown.section = "retention_dashboard"
        => shown.high_risk_count = Cardinality(ClassifiedHigh)

----------------------------------------------------------------------------
(* Properties of the process-wide singleton *)

\* C12: no request handler writes the singleton: every step of /, /health
\* and /predict, answered or failed, leaves config, features, MODEL_PATH and
\* model as they were at start-up, so that every /health call reports the
\* status and the path of the model loaded at start-up.
C12_SingletonUnchanged ==
    [][ /\ config' = config
        /\ features' = features
        /\ MODEL_PATH' = MODEL_PATH
        /\ model' = model
        /\ req'.path = "/health"
              => resp' = Http(200, [status |-> IF model = None THEN "error"
                                               ELSE "ok",
                                    model |-> MODEL_PATH]) ]_vars

\* a /predict that failed with a 500, other requests, and then a /health
\* that still reports the model as loaded
C12_Witness ==
    /\ obs.set
    /\ obs.resp.status = 500
    /\ obs.between
    /\ req.path = "/health"
    /\ resp.body.status = "ok"
    /\ model # None

----------------------------------------------------------------------------
(* Properties of the reported probability *)

\* the tier the threshold rule gives a probability under the loaded thresholds
RuleTier(p) ==
    IF p >= High THEN "High"
    ELSE IF p >= Medium THEN "Medium"
    ELSE IF p >= Low THEN "Low-Medium"
    ELSE "Low"

\* C13 as stated: in every successful response the tier and the action are
\* those the threshold rule gives the churn_probability the response
\* reports, the probability rounded to 4 decimals.
C13_Original ==
    Succeeded =>
        /\ resp.body.churn_risk_level = RuleTier(resp.body.churn_probability)
        /\ resp.body.recommended_action
              = ActionOf(RuleTier(resp.body.churn_probability))

\* C13, amended: in every successful response the tier and the action are
\* those the threshold rule gives the probability before rounding; the
\* reported churn_probability is that probability rounded to 4 decimals, and
\* the rule applied to it gives the reported tier unless the rounding has
\* carried the probability across a threshold (0.69999 is reported as 0.7
\* with the tier Medium under high = 0.7).
C13_TierOfUnroundedProbability ==
    Succeeded =>
        LET raw == trace.prob
            reported == resp.body.churn_probability
        IN  /\ resp.body.churn_risk_level = RuleTier(raw)
            /\ resp.body.recommended_action = ActionOf(RuleTier(raw))
            /\ reported % 10 = 0
            /\ reported - raw \in -5..5
            /\ resp.body.churn_risk_level # RuleTier(reported)
                  => \E t \in {High, Medium, Low} :
                        \/ raw < t /\ t <= reported
                        \/ reported < t /\ t <= raw

\* 0.69999 under the default thresholds: reported as 0.7, tier Medium
C13_Witness ==
    /\ Succeeded
    /\ config.retention_policy = DefaultPolicy
    /\ trace.prob = 69999
    /\ resp.body.churn_probability = 70000
    /\ resp.body.churn_risk_level = "Medium"

====
